---- MODULE Spec2Model ----
(***************************************************************************)
(* Cold-Mailer: the contact extractor, the template renderer and the       *)
(* dispatch loops of the command-line tool (cold_mailer.py) and of the     *)
(* REST service (api.py).                                                  *)
(*                                                                         *)
(* Python strings are TLA+ strings; str.strip, the "in" test and           *)
(* str.format are computed character by character.  A data frame is the    *)
(* sequence of rows pandas.read_csv returns: every row a tuple of cells,   *)
(* a cell either a string or NaN.                                          *)
(***************************************************************************)
EXTENDS Integers, Sequences, FiniteSets, TLC

\* Python's None and pandas' NaN: two values no string of the inputs equals.
None == "<None>"
NaN == "<NaN>"

\* bool(x) of an Optional[str]: None and "" are falsy.
Truthy(x) == x # None /\ x # ""

\* Python's `a or b`.
Or(a, b) == IF Truthy(a) THEN a ELSE b

Min(S) == CHOOSE m \in S : \A n \in S : m <= n

(***************************************************************************)
(* String helpers                                                          *)
(***************************************************************************)
CharAt(s, i) == SubSeq(s, i, i)

IsSpace(c) == c \in {" ", "\t", "\n", "\r"}

RECURSIVE LStrip(_)
LStrip(s) == IF Len(s) > 0 /\ IsSpace(CharAt(s, 1)) THEN LStrip(Tail(s)) ELSE s

RECURSIVE RStrip(_)
RStrip(s) ==
    IF Len(s) > 0 /\ IsSpace(CharAt(s, Len(s)))
    THEN RStrip(SubSeq(s, 1, Len(s) - 1))
    ELSE s

\* str.strip()
Strip(s) == RStrip(LStrip(s))

\* `ch in s` for a one-character ch
Contains(s, ch) == \E i \in 1..Len(s) : CharAt(s, i) = ch

LowerChar(c) ==
    CASE c = "Y" -> "y"
      [] c = "E" -> "e"
      [] c = "S" -> "s"
      [] c = "N" -> "n"
      [] c = "O" -> "o"
      [] OTHER -> c

\* str.lower(), on the letters the confirmation answers are written with
RECURSIVE Lower(_)
Lower(s) == IF Len(s) = 0 THEN "" ELSE LowerChar(CharAt(s, 1)) \o Lower(Tail(s))

(***************************************************************************)
(* str.format with keyword arguments kw: every {name} field is replaced   *)
(* by kw[name]; a field whose name is not a keyword raises KeyError, an    *)
(* unclosed "{" raises ValueError.  The result is [ok, s, err].            *)
(***************************************************************************)
RECURSIVE Format(_, _)
Format(t, kw) ==
    LET opens == {i \in 1..Len(t) : CharAt(t, i) = "{"} IN
    IF opens = {} THEN [ok |-> TRUE, s |-> t, err |-> ""]
    ELSE
      LET o == Min(opens)
          closes == {j \in (o + 1)..Len(t) : CharAt(t, j) = "}"}
      IN
      IF closes = {} THEN [ok |-> FALSE, s |-> "", err |-> "ValueError"]
      ELSE
        LET c == Min(closes)
            name == SubSeq(t, o + 1, c - 1)
        IN
        IF name \notin DOMAIN kw THEN [ok |-> FALSE, s |-> "", err |-> "KeyError"]
        ELSE
          LET rest == Format(SubSeq(t, c + 1, Len(t)), kw) IN
          IF ~rest.ok THEN rest
          ELSE [ok |-> TRUE, s |-> SubSeq(t, 1, o - 1) \o kw[name] \o rest.s, err |-> ""]

(***************************************************************************)
(* Contact extraction (parse_contacts); the loop body is the same text in  *)
(* api.py and in cold_mailer.py.                                           *)
(***************************************************************************)
\* values = [str(val).strip() for val in row if pd.notna(val) and str(val).strip()]
PresentValues(row) ==
    LET kept == SelectSeq(row, LAMBDA val : val # NaN /\ Strip(val) # "") IN
    [k \in 1..Len(kept) |-> Strip(kept[k])]

\* for val in values: if '@' in val: email = val; break
FirstEmail(values) ==
    LET hits == {k \in 1..Len(values) : Contains(values[k], "@")} IN
    IF hits = {} THEN None ELSE values[Min(hits)]

\* NameOf without the placeholder: the last value whatever it is.
NameOf_NoPlaceholder(values, email) == values[Len(values)]

\* name = values[-1] if values[-1] != email else "Hiring Manager"
NameOf(values, email) ==
    IF values[Len(values)] # email THEN values[Len(values)] ELSE "Hiring Manager"

\* RowContacts with the length test off by one: `if len(values) >= 1`.
RowContacts_OneValue(row) ==
    LET values == PresentValues(row) IN
    IF Len(values) >= 1
    THEN LET company == values[1]
             email == FirstEmail(values)
             name == NameOf(values, email)
         IN IF Truthy(email)
            THEN <<[email |-> email, hr_name |-> name, company_name |-> company]>>
            ELSE <<>>
    ELSE <<>>

\* The contacts one row appends: none or one.
RowContacts(row) ==
    LET values == PresentValues(row) IN
    IF Len(values) >= 2
    THEN LET company == values[1]
             email == FirstEmail(values)
             name == NameOf(values, email)
         IN IF Truthy(email)
            THEN <<[email |-> email, hr_name |-> name, company_name |-> company]>>
            ELSE <<>>
    ELSE <<>>

RECURSIVE ParseRows(_, _)
ParseRows(df, contacts) ==
    IF df = <<>> THEN contacts
    ELSE ParseRows(Tail(df), contacts \o RowContacts(Head(df)))

\* api.py parse_contacts
parse_contacts(df) == ParseRows(df, <<>>)

\* cold_mailer.py parse_contacts
cli_parse_contacts(df) == ParseRows(df, <<>>)

(***************************************************************************)
(* Templates                                                               *)
(***************************************************************************)
\* api.py DEFAULT_SUBJECT
DEFAULT_SUBJECT == "Application for SDE-1 Position at {company_name}"

\* api.py DEFAULT_BODY (the bullet character of the source is written "*")
DEFAULT_BODY ==
    "Dear {hr_name},\n\n"
    \o "I hope this email finds you well. I am writing to express my interest in the Software Developer Engineer (SDE-1) position at {company_name}.\n\n"
    \o "I am a passionate software developer with strong problem-solving skills and experience in:\n"
    \o "* Data Structures & Algorithms\n"
    \o "* Python, Java, JavaScript\n"
    \o "* Web Development (React, Node.js)\n"
    \o "* Database Management (SQL, MongoDB)\n"
    \o "* Git and Version Control\n\n"
    \o "I am eager to contribute to {company_name}'s innovative projects and would be grateful for the opportunity to discuss how my skills align with your team's needs.\n\n"
    \o "Thank you for your time and consideration.\n\n"
    \o "Best regards,\n[Your Name]\nEmail: {sender_email}\n"

\* cold_mailer.py EMAIL_SUBJECT
EMAIL_SUBJECT == "Application for SDE-1 Position at {company_name}"

\* cold_mailer.py EMAIL_BODY_TEMPLATE
EMAIL_BODY_TEMPLATE ==
    "Dear {hr_name},\n\n"
    \o "I hope this email finds you well. I am writing to express my interest in the Software Developer Engineer (SDE-1) position at {company_name}.\n\n"
    \o "I am a passionate software developer with strong problem-solving skills and experience in:\n"
    \o "* Data Structures & Algorithms\n"
    \o "* Python, Java, JavaScript\n"
    \o "* Web Development (React, Node.js)\n"
    \o "* Database Management (SQL, MongoDB)\n"
    \o "* Git and Version Control\n\n"
    \o "I am eager to contribute to {company_name}'s innovative projects and would be grateful for the opportunity to discuss how my skills align with your team's needs.\n\n"
    \o "I have attached my resume for your reference. I would appreciate the opportunity to discuss my candidacy further.\n\n"
    \o "Thank you for your time and consideration.\n\n"
    \o "Best regards,\n[Your Name]\nEmail: {sender_email}\nPhone: [Your Phone Number]\n"
    \o "LinkedIn: [Your LinkedIn Profile]\nGitHub: [Your GitHub Profile]\n"

(***************************************************************************)
(* Inputs                                                                  *)
(***************************************************************************)
\* Longest sheet of a batch run, in rows.
MaxRows == 2

\* Cells of the sheets whose extraction is examined row by row.
Cells == {NaN, " ", "Acme", "a@b.com", " a@b.com ", "hr@x.io", "Jane Doe"}

Rows == Cells \X Cells \X Cells

\* Rows of the sheets a batch run reads: a full row, a row whose e-mail is
\* its last cell, a row without an e-mail, a row with one value.
BatchRows ==
    { <<"Acme", "a@b.com", "Jane Doe">>,
      <<"Initech", NaN, " hr@x.io">>,
      <<"Globex", "Bob", NaN>>,
      <<NaN, "c@d.org", " ">> }

RECURSIVE SeqsUpTo(_, _)
SeqsUpTo(S, n) ==
    IF n = 0 THEN {<<>>}
    ELSE LET shorter == SeqsUpTo(S, n - 1) IN
         shorter \cup {Append(q, e) : q \in {r \in shorter : Len(r) = n - 1}, e \in S}

BatchSheets == SeqsUpTo(BatchRows, MaxRows) \ {<<>>}

\* What requests.get returns for the export URL: the status, and the rows
\* read_csv makes of the text.
BatchHttp ==
    {[status_code |-> 404, rows |-> <<>>]}
    \cup {[status_code |-> 200, rows |-> d] : d \in BatchSheets}

ExtractHttp ==
    BatchHttp \cup {[status_code |-> 200, rows |-> <<r>>] : r \in Rows}

\* A template that uses exactly the placeholders of S.
TemplateOf(S) ==
    "Hello"
    \o (IF "hr_name" \in S THEN " {hr_name}" ELSE "")
    \o (IF "company_name" \in S THEN " at {company_name}" ELSE "")
    \o (IF "sender_email" \in S THEN " from {sender_email}" ELSE "")

Placeholders == {"company_name", "hr_name", "sender_email"}

Templates == {None} \cup {TemplateOf(S) : S \in SUBSET Placeholders}

BatchTemplates ==
    {None, TemplateOf({"company_name", "hr_name"}), TemplateOf({"sender_email"})}

SingleEmailRequests ==
    [to_email : {"hr@acme.com"}, hr_name : {"Jane Doe"}, company_name : {"Acme"},
     subject : Templates, body : Templates,
     sender_email : {None, "user@gmail.com"}, sender_password : {None, "userpw"}]

GoogleSheetRequests == [subject : BatchTemplates, body : BatchTemplates]

CliArgs == [preview : BOOLEAN, confirm : BOOLEAN]

Answers == {"yes", "YES", "Yes", "no", "y", ""}

\* How the SMTP session of one send ends: delivered, SMTPAuthenticationError
\* at login, or any other exception.
NetOutcomes == {"ok", "auth", "error"}

(***************************************************************************)
(* State                                                                   *)
(***************************************************************************)
VARIABLES
    GMAIL_ADDRESS,       \* os.getenv('GMAIL_ADDRESS')
    GMAIL_APP_PASSWORD,  \* os.getenv('GMAIL_APP_PASSWORD')
    pc,                  \* "idle", "api_loop", "cli_loop", "done"
    op,                  \* the operation that runs
    request,             \* its request body or command-line arguments
    http,                \* the response of the sheet fetch
    contacts,            \* the extracted contacts
    i,                   \* contacts the dispatch loop has processed
    results,             \* api.py: results
    success_count,       \* cold_mailer.py: success_count
    fail_count,          \* cold_mailer.py: fail_count
    outbox,              \* the SMTP sessions opened, in order
    printed,             \* the previews cold_mailer.py printed, in order
    response,            \* the HTTP response; for main(), how it returned
    prompted,            \* input() was called
    answer               \* what input() returned

vars == <<GMAIL_ADDRESS, GMAIL_APP_PASSWORD, pc, op, request, http, contacts, i,
          results, success_count, fail_count, outbox, printed, response,
          prompted, answer>>

env == <<GMAIL_ADDRESS, GMAIL_APP_PASSWORD>>

NoHttp == [status_code |-> 0, rows |-> <<>>]
NoResponse == [status |-> 0, detail |-> "", payload |-> <<>>]

Init ==
    /\ GMAIL_ADDRESS \in {None, "me@gmail.com"}
    /\ GMAIL_APP_PASSWORD \in {None, "app-password"}
    /\ pc = "idle"
    /\ op = "none"
    /\ request = <<>>
    /\ http = NoHttp
    /\ contacts = <<>>
    /\ i = 0
    /\ results = <<>>
    /\ success_count = 0
    /\ fail_count = 0
    /\ outbox = <<>>
    /\ printed = <<>>
    /\ response = NoResponse
    /\ prompted = FALSE
    /\ answer = None

\* raise HTTPException(status_code, detail), or an exception no handler catches
Raise(status, detail) == [status |-> status, detail |-> detail, payload |-> <<>>]
Return(payload) == [status |-> 200, detail |-> "", payload |-> payload]
Unhandled(err) == Raise(500, err)

(***************************************************************************)
(* api.py                                                                  *)
(***************************************************************************)
\* fetch_google_sheet: the text of the sheet, or HTTPException 400
fetch_google_sheet(resp) ==
    IF resp.status_code # 200
    THEN [raised |-> 400, detail |-> "Failed to fetch Google Sheet", rows |-> <<>>]
    ELSE [raised |-> 0, detail |-> "", rows |-> resp.rows]

\* send_email that tries a failed send a second time.
send_email_Retry(to_email, subject, body, sender_email, sender_password, net) ==
    LET gmail_addr == Or(sender_email, GMAIL_ADDRESS)
        gmail_pass == Or(sender_password, GMAIL_APP_PASSWORD)
        session == [from |-> gmail_addr, to |-> to_email, subject |-> subject,
                    body |-> body, reply |-> net, delivered |-> net = "ok"]
    IN
    IF ~Truthy(gmail_addr) \/ ~Truthy(gmail_pass)
    THEN [raised |-> 400, detail |-> "Gmail credentials required", smtp |-> <<>>]
    ELSE CASE net = "ok" -> [raised |-> 0, detail |-> "", smtp |-> <<session>>]
           [] net = "auth" ->
                [raised |-> 401, detail |-> "Gmail authentication failed",
                 smtp |-> <<session, session>>]
           [] OTHER ->
                [raised |-> 500, detail |-> "Failed to send email",
                 smtp |-> <<session, session>>]

\* send_email: one SMTP session.  raised = 0 when it returns True.
send_email(to_email, subject, body, sender_email, sender_password, net) ==
    LET gmail_addr == Or(sender_email, GMAIL_ADDRESS)
        gmail_pass == Or(sender_password, GMAIL_APP_PASSWORD)
        session == [from |-> gmail_addr, to |-> to_email, subject |-> subject,
                    body |-> body, reply |-> net, delivered |-> net = "ok"]
    IN
    IF ~Truthy(gmail_addr) \/ ~Truthy(gmail_pass)
    THEN [raised |-> 400, detail |-> "Gmail credentials required", smtp |-> <<>>]
    ELSE CASE net = "ok" -> [raised |-> 0, detail |-> "", smtp |-> <<session>>]
           [] net = "auth" ->
                [raised |-> 401, detail |-> "Gmail authentication failed", smtp |-> <<session>>]
           [] OTHER ->
                [raised |-> 500, detail |-> "Failed to send email", smtp |-> <<session>>]

\* The subject of the three API paths: .format(company_name=, hr_name=)
RenderSubject(template, company_name, hr_name) ==
    Format(Or(template, DEFAULT_SUBJECT),
           [company_name |-> company_name, hr_name |-> hr_name])

\* The body of the three API paths: .format(company_name=, hr_name=, sender_email=)
RenderBody(template, company_name, hr_name, sender) ==
    Format(Or(template, DEFAULT_BODY),
           [company_name |-> company_name, hr_name |-> hr_name, sender_email |-> sender])

\* preview_email with the sender fallbacks in the wrong order: the
\* configured address before the caller's.
preview_email_ConfiguredFirst(req) ==
    LET sender == Or(Or(GMAIL_ADDRESS, req.sender_email), "your.email@gmail.com")
        subject == RenderSubject(req.subject, req.company_name, req.hr_name)
        body == RenderBody(req.body, req.company_name, req.hr_name, sender)
    IN
    IF ~subject.ok THEN Unhandled(subject.err)
    ELSE IF ~body.ok THEN Unhandled(body.err)
    ELSE Return([to_email |-> req.to_email, subject |-> subject.s, body |-> body.s])

\* POST /preview
preview_email(req) ==
    LET sender == Or(Or(req.sender_email, GMAIL_ADDRESS), "your.email@gmail.com")
        subject == RenderSubject(req.subject, req.company_name, req.hr_name)
        body == RenderBody(req.body, req.company_name, req.hr_name, sender)
    IN
    IF ~subject.ok THEN Unhandled(subject.err)
    ELSE IF ~body.ok THEN Unhandled(body.err)
    ELSE Return([to_email |-> req.to_email, subject |-> subject.s, body |-> body.s])

\* POST /send: the response and the SMTP sessions it opened
send_single_email(req, net) ==
    LET sender == Or(req.sender_email, GMAIL_ADDRESS)
        password == Or(req.sender_password, GMAIL_APP_PASSWORD)
        subject == RenderSubject(req.subject, req.company_name, req.hr_name)
        body == RenderBody(req.body, req.company_name, req.hr_name, sender)
        sent == send_email(req.to_email, subject.s, body.s, sender, password, net)
    IN
    IF ~Truthy(sender) \/ ~Truthy(password)
    THEN [response |-> Raise(400, "Please provide your Gmail address and App Password"),
          smtp |-> <<>>]
    ELSE IF ~subject.ok THEN [response |-> Unhandled(subject.err), smtp |-> <<>>]
    ELSE IF ~body.ok THEN [response |-> Unhandled(body.err), smtp |-> <<>>]
    ELSE IF sent.raised # 0
    THEN [response |-> Raise(sent.raised, sent.detail), smtp |-> sent.smtp]
    ELSE [response |-> Return([success |-> TRUE, email |-> req.to_email]),
          smtp |-> sent.smtp]

ApiPreview ==
    /\ pc = "idle"
    /\ \E req \in SingleEmailRequests :
         /\ request' = req
         /\ response' = preview_email(req)
    /\ op' = "preview"
    /\ pc' = "done"
    /\ UNCHANGED <<env, http, contacts, i, results, success_count, fail_count,
                   outbox, printed, prompted, answer>>

ApiSend ==
    /\ pc = "idle"
    /\ \E req \in SingleEmailRequests, net \in NetOutcomes :
         LET r == send_single_email(req, net) IN
         /\ request' = req
         /\ response' = r.response
         /\ outbox' = outbox \o r.smtp
    /\ op' = "send"
    /\ pc' = "done"
    /\ UNCHANGED <<env, http, contacts, i, results, success_count, fail_count,
                   printed, prompted, answer>>

\* POST /fetch-contacts
ApiFetchContacts ==
    /\ pc = "idle"
    /\ \E resp \in ExtractHttp :
         LET csv_data == fetch_google_sheet(resp)
             found == parse_contacts(csv_data.rows)
         IN
         /\ http' = resp
         /\ IF csv_data.raised # 0
            THEN /\ response' = Raise(csv_data.raised, csv_data.detail)
                 /\ contacts' = contacts
            ELSE /\ contacts' = found
                 /\ response' = IF found = <<>>
                                THEN Raise(404, "No contacts found in the sheet")
                                ELSE Return(found)
    /\ op' = "fetch_contacts"
    /\ pc' = "done"
    /\ request' = <<>>
    /\ UNCHANGED <<env, i, results, success_count, fail_count, outbox, printed,
                   prompted, answer>>

\* if not GMAIL_ADDRESS or not GMAIL_APP_PASSWORD: raise
credentials_configured == Truthy(GMAIL_ADDRESS) /\ Truthy(GMAIL_APP_PASSWORD)

\* POST /send-from-sheet, up to the dispatch loop
ApiSendFromSheet ==
    /\ pc = "idle"
    /\ op' = "send_from_sheet"
    /\ \E req \in GoogleSheetRequests, resp \in BatchHttp :
         LET csv_data == fetch_google_sheet(resp)
             found == parse_contacts(csv_data.rows)
         IN
         /\ request' = req
         /\ IF ~credentials_configured
            THEN /\ response' = Raise(500, "Gmail credentials not configured")
                 /\ pc' = "done"
                 /\ UNCHANGED <<http, contacts>>
            ELSE /\ http' = resp
                 /\ IF csv_data.raised # 0
                    THEN /\ response' = Raise(csv_data.raised, csv_data.detail)
                         /\ pc' = "done"
                         /\ contacts' = contacts
                    ELSE /\ contacts' = found
                         /\ IF found = <<>>
                            THEN /\ response' = Raise(404, "No contacts found in the sheet")
                                 /\ pc' = "done"
                            ELSE /\ response' = response
                                 /\ pc' = "api_loop"
    /\ UNCHANGED <<env, i, results, success_count, fail_count, outbox, printed,
                   prompted, answer>>

\* What the loop body appends to results for one contact.
ApiOutcome(contact, sent) ==
    IF sent.raised = 0
    THEN [success |-> TRUE, email |-> contact.email, name |-> contact.hr_name,
          company |-> contact.company_name, error |-> None]
    ELSE [success |-> FALSE, email |-> contact.email, name |-> None,
          company |-> None, error |-> sent.detail]

\* One iteration of `for contact in contacts`
ApiSendFromSheetIter ==
    /\ pc = "api_loop"
    /\ i < Len(contacts)
    /\ \E net \in NetOutcomes :
         LET contact == contacts[i + 1]
             subject == RenderSubject(request.subject, contact.company_name, contact.hr_name)
             body == RenderBody(request.body, contact.company_name, contact.hr_name,
                                GMAIL_ADDRESS)
             sent == send_email(contact.email, subject.s, body.s, None, None, net)
         IN
         IF ~subject.ok \/ ~body.ok
         THEN /\ response' = Unhandled(IF ~subject.ok THEN subject.err ELSE body.err)
              /\ pc' = "done"
              /\ UNCHANGED <<i, results, outbox>>
         ELSE /\ outbox' = outbox \o sent.smtp
              /\ results' = Append(results, ApiOutcome(contact, sent))
              /\ i' = i + 1
              /\ UNCHANGED <<pc, response>>
    /\ UNCHANGED <<env, op, request, http, contacts, success_count, fail_count,
                   printed, prompted, answer>>

\* Summary with the successes reported as the total.
Summary_TotalIsSuccesses(all_contacts, all_results) ==
    LET count == Cardinality({k \in 1..Len(all_results) : all_results[k].success}) IN
    [total |-> count, success |-> count,
     failed |-> Len(all_contacts) - count, results |-> all_results]

\* The dictionary send_from_google_sheet returns
Summary(all_contacts, all_results) ==
    LET count == Cardinality({k \in 1..Len(all_results) : all_results[k].success}) IN
    [total |-> Len(all_contacts), success |-> count,
     failed |-> Len(all_contacts) - count, results |-> all_results]

\* The return after the loop
ApiSendFromSheetReturn ==
    /\ pc = "api_loop"
    /\ i = Len(contacts)
    /\ response' = Return(Summary(contacts, results))
    /\ pc' = "done"
    /\ UNCHANGED <<env, op, request, http, contacts, i, results, success_count,
                   fail_count, outbox, printed, prompted, answer>>

(***************************************************************************)
(* cold_mailer.py.  How main() ended is kept in `response`: status 0 and   *)
(* the message printed when it returned before the loop, status 200 and    *)
(* the counts when it printed the summary line, status 500 when an         *)
(* exception left it.                                                      *)
(***************************************************************************)
\* print(message); return
CliReturn(message) == [status |-> 0, detail |-> message, payload |-> <<>>]

\* fetch_google_sheet: the text of the sheet, or Exception
cli_fetch_google_sheet(resp) ==
    IF resp.status_code # 200
    THEN [raised |-> TRUE, rows |-> <<>>]
    ELSE [raised |-> FALSE, rows |-> resp.rows]

\* cli_send_email without its try/except: a failed send raises.
cli_send_email_Uncaught(to_email, hr_name, company_name, preview_only, net) ==
    LET subject == Format(EMAIL_SUBJECT, [company_name |-> company_name])
        body == Format(EMAIL_BODY_TEMPLATE,
                       [hr_name |-> hr_name, company_name |-> company_name,
                        sender_email |-> GMAIL_ADDRESS])
        message == [from |-> GMAIL_ADDRESS, to |-> to_email, subject |-> subject.s,
                    body |-> body.s, reply |-> net, delivered |-> net = "ok"]
    IN
    IF ~subject.ok \/ ~body.ok
    THEN [raised |-> TRUE, result |-> FALSE, printed |-> <<>>, smtp |-> <<>>]
    ELSE IF preview_only
    THEN [raised |-> FALSE, result |-> TRUE,
          printed |-> <<[to |-> to_email, subject |-> subject.s, body |-> body.s]>>,
          smtp |-> <<>>]
    ELSE [raised |-> net # "ok", result |-> net = "ok", printed |-> <<>>,
          smtp |-> <<message>>]

\* send_email(to_email, hr_name, company_name, preview_only)
cli_send_email(to_email, hr_name, company_name, preview_only, net) ==
    LET subject == Format(EMAIL_SUBJECT, [company_name |-> company_name])
        body == Format(EMAIL_BODY_TEMPLATE,
                       [hr_name |-> hr_name, company_name |-> company_name,
                        sender_email |-> GMAIL_ADDRESS])
        message == [from |-> GMAIL_ADDRESS, to |-> to_email, subject |-> subject.s,
                    body |-> body.s, reply |-> net, delivered |-> net = "ok"]
    IN
    IF ~subject.ok \/ ~body.ok
    THEN [raised |-> TRUE, result |-> FALSE, printed |-> <<>>, smtp |-> <<>>]
    ELSE IF preview_only
    THEN [raised |-> FALSE, result |-> TRUE,
          printed |-> <<[to |-> to_email, subject |-> subject.s, body |-> body.s]>>,
          smtp |-> <<>>]
    ELSE [raised |-> FALSE, result |-> net = "ok", printed |-> <<>>, smtp |-> <<message>>]

\* Declined that also takes "y" for a yes.
Declined_AcceptsY(confirm) == Lower(confirm) \notin {"yes", "y"}

\* confirm.lower() != 'yes'
Declined(confirm) == Lower(confirm) # "yes"

\* The credential check with the password forgotten.
cli_credentials_configured_AddressOnly == Truthy(GMAIL_ADDRESS)

\* if not GMAIL_ADDRESS or not GMAIL_APP_PASSWORD: return
cli_credentials_configured == Truthy(GMAIL_ADDRESS) /\ Truthy(GMAIL_APP_PASSWORD)

\* main(), up to the dispatch loop
CliMain ==
    /\ pc = "idle"
    /\ op' = "cli"
    /\ \E args \in CliArgs, resp \in BatchHttp, confirm \in Answers :
         LET csv_data == cli_fetch_google_sheet(resp)
             found == cli_parse_contacts(csv_data.rows)
         IN
         /\ request' = args
         /\ IF ~cli_credentials_configured
            THEN /\ response' = CliReturn("Error: Please set GMAIL_ADDRESS and GMAIL_APP_PASSWORD")
                 /\ pc' = "done"
                 /\ UNCHANGED <<http, contacts, prompted, answer>>
            ELSE /\ http' = resp
                 /\ IF csv_data.raised
                    THEN /\ response' = CliReturn("Error fetching/parsing sheet")
                         /\ pc' = "done"
                         /\ UNCHANGED <<contacts, prompted, answer>>
                    ELSE /\ contacts' = found
                         /\ IF found = <<>>
                            THEN /\ response' = CliReturn("No contacts found in the sheet!")
                                 /\ pc' = "done"
                                 /\ UNCHANGED <<prompted, answer>>
                            ELSE IF ~args.preview /\ ~args.confirm
                            THEN /\ prompted' = TRUE
                                 /\ answer' = confirm
                                 /\ IF Declined(confirm)
                                    THEN /\ response' = CliReturn("Cancelled.")
                                         /\ pc' = "done"
                                    ELSE /\ response' = response
                                         /\ pc' = "cli_loop"
                            ELSE /\ response' = response
                                 /\ pc' = "cli_loop"
                                 /\ UNCHANGED <<prompted, answer>>
    /\ UNCHANGED <<env, i, results, success_count, fail_count, outbox, printed>>

\* One iteration of `for i, contact in enumerate(contacts)`
CliMainIter ==
    /\ pc = "cli_loop"
    /\ i < Len(contacts)
    /\ \E net \in NetOutcomes :
         LET contact == contacts[i + 1]
             r == cli_send_email(contact.email, contact.hr_name, contact.company_name,
                                 request.preview, net)
         IN
         IF r.raised
         THEN /\ response' = Unhandled("Traceback")
              /\ pc' = "done"
              /\ outbox' = outbox \o r.smtp
              /\ UNCHANGED <<i, success_count, fail_count, printed>>
         ELSE /\ outbox' = outbox \o r.smtp
              /\ printed' = printed \o r.printed
              /\ success_count' = IF r.result THEN success_count + 1 ELSE success_count
              /\ fail_count' = IF r.result THEN fail_count ELSE fail_count + 1
              /\ i' = i + 1
              /\ UNCHANGED <<pc, response>>
    /\ UNCHANGED <<env, op, request, http, contacts, results, prompted, answer>>

\* The summary line after the loop
CliMainSummary ==
    /\ pc = "cli_loop"
    /\ i = Len(contacts)
    /\ response' = Return([succeeded |-> success_count, failed |-> fail_count])
    /\ pc' = "done"
    /\ UNCHANGED <<env, op, request, http, contacts, i, results, success_count,
                   fail_count, outbox, printed, prompted, answer>>

Next ==
    \/ ApiPreview
    \/ ApiSend
    \/ ApiFetchContacts
    \/ ApiSendFromSheet
    \/ ApiSendFromSheetIter
    \/ ApiSendFromSheetReturn
    \/ CliMain
    \/ CliMainIter
    \/ CliMainSummary

Spec == Init /\ [][Next]_vars

(***************************************************************************)
(* Properties of the contact extractor                                     *)
(***************************************************************************)
Max(S) == CHOOSE m \in S : \A n \in S : m >= n

\* A cell that holds a value: not NaN, and not only white space.
Present(cell) == cell # NaN /\ \E k \in 1..Len(cell) : ~IsSpace(CharAt(cell, k))

PresentIdx(row) == {k \in 1..Len(row) : Present(row[k])}

EmailIdx(row) == {k \in PresentIdx(row) : Contains(row[k], "@")}

\* At least 2 present values, one of them with an '@'.
Qualifies(row) == Cardinality(PresentIdx(row)) >= 2 /\ EmailIdx(row) # {}

QualifyingRows(df) == SelectSeq(df, Qualifies)

\* The sheet was fetched and its rows were extracted into contacts.
Extracted == http.status_code = 200

PreviewRequestOf(contact) ==
    [to_email |-> contact.email, hr_name |-> contact.hr_name,
     company_name |-> contact.company_name, subject |-> request.subject,
     body |-> request.body, sender_email |-> None, sender_password |-> None]

\* The preview response shows the subject and the body of the message m.
PreviewShows(preview, m) ==
    /\ preview.status = 200
    /\ preview.payload.subject = m.subject
    /\ preview.payload.body = m.body

\* C4: whenever a real send transmits a message, the preview of the same
\* contact, template and sender shows the subject and body transmitted;
\* the preview opens no SMTP connection and reports success.
C4_PreviewEqualsSent ==
    /\ op = "send" =>
         \A k \in 1..Len(outbox) :
           outbox[k].delivered => PreviewShows(preview_email(request), outbox[k])
    /\ op = "send_from_sheet" =>
         \A k \in 1..Len(outbox) :
           outbox[k].delivered =>
             PreviewShows(preview_email(PreviewRequestOf(contacts[k])), outbox[k])
    /\ op = "cli" =>
         \A k \in 1..Len(outbox) :
           outbox[k].delivered =>
             LET c == contacts[k]
                 shown == cli_send_email(c.email, c.hr_name, c.company_name, TRUE, "ok")
             IN /\ shown.result
                /\ shown.smtp = <<>>
                /\ Len(shown.printed) = 1
                /\ shown.printed[1].subject = outbox[k].subject
                /\ shown.printed[1].body = outbox[k].body
    /\ op = "preview" => outbox = <<>>
    /\ (op = "cli" /\ request.preview) =>
         /\ outbox = <<>>
         /\ fail_count = 0
         /\ Len(printed) = i
         /\ success_count = i

\* A single send with the caller's own sender address, whose body names
\* the sender, was delivered while another address is configured.
C4_Witness ==
    /\ op = "send"
    /\ GMAIL_ADDRESS = "me@gmail.com"
    /\ request.sender_email = "user@gmail.com"
    /\ request.body = TemplateOf({"sender_email"})
    /\ Len(outbox) = 1
    /\ outbox[1].delivered
    /\ outbox[1].body = "Hello from user@gmail.com"

\* The request's templates use only the three placeholders.
UsesOnlyPlaceholders == request.subject \in Templates /\ request.body \in Templates

\* C7: a subject or body that uses any subset of {company_name}, {hr_name},
\* {sender_email} renders in every API path: no request ends with the
\* KeyError of an unsubstituted placeholder.
C7_EveryPlaceholderRenders ==
    (op \in {"preview", "send", "send_from_sheet"} /\ UsesOnlyPlaceholders)
      => ~(response.status = 500 /\ response.detail = "KeyError")

\* The credential pair a single send uses is incomplete.
SingleSendCredentialsMissing ==
    \/ ~Truthy(Or(request.sender_email, GMAIL_ADDRESS))
    \/ ~Truthy(Or(request.sender_password, GMAIL_APP_PASSWORD))

\* The configured credential pair is incomplete.
ConfiguredCredentialsMissing == ~Truthy(GMAIL_ADDRESS) \/ ~Truthy(GMAIL_APP_PASSWORD)

\* C3: missing credentials or an unfetchable sheet give 400, zero contacts
\* give 404, an authentication failure of a single send gives 401 and any
\* other transport failure of a single send gives 500, for the single send
\* and for the send to every contact alike.
C3_FailureStatuses ==
    /\ (op = "send" /\ pc = "done") =>
         /\ SingleSendCredentialsMissing => response.status = 400
         /\ \A k \in 1..Len(outbox) :
              /\ outbox[k].reply = "auth" => response.status = 401
              /\ outbox[k].reply = "error" => response.status = 500
    /\ (op = "fetch_contacts" /\ pc = "done") =>
         /\ http.status_code # 200 => response.status = 400
         /\ (http.status_code = 200 /\ contacts = <<>>) => response.status = 404
    /\ (op = "send_from_sheet" /\ pc = "done") =>
         /\ ConfiguredCredentialsMissing => response.status = 400
         /\ (~ConfiguredCredentialsMissing /\ http.status_code # 200)
              => response.status = 400
         /\ (~ConfiguredCredentialsMissing /\ http.status_code = 200 /\ contacts = <<>>)
              => response.status = 404

(***************************************************************************)
(* Properties of the batch runs                                            *)
(***************************************************************************)
IsBatch == op \in {"send_from_sheet", "cli"}

\* The dispatch attempts of a run, in order: the SMTP sessions of a real
\* send, the printed previews of a preview run.
attempts == outbox \o printed

FailedSessions == {k \in 1..Len(outbox) : ~outbox[k].delivered}

\* The run ended with its summary.
Summarised == pc = "done" /\ response.status = 200

\* C1: a failed send is recorded as the failure of its contact and the loop
\* goes on; when every send has failed, the summary still covers all N
\* contacts: total N, 0 succeeded, N failed, N outcome entries.
C1_FailureRecordedBatchContinues ==
    /\ op = "send_from_sheet" =>
         \A k \in FailedSessions :
           /\ k <= Len(results)
           /\ ~results[k].success
           /\ results[k].email = contacts[k].email
           /\ results[k].error # None
    /\ (op = "cli" /\ ~request.preview) => fail_count = Cardinality(FailedSessions)
    /\ (IsBatch /\ pc = "done" /\ FailedSessions # {}) =>
         /\ Summarised
         /\ Len(outbox) = Len(contacts)
    /\ (IsBatch /\ Summarised /\ Cardinality(FailedSessions) = Len(contacts)) =>
         IF op = "send_from_sheet"
         THEN /\ response.payload.total = Len(contacts)
              /\ response.payload.success = 0
              /\ response.payload.failed = Len(contacts)
              /\ Len(response.payload.results) = Len(contacts)
         ELSE /\ response.payload.succeeded = 0
              /\ response.payload.failed = Len(contacts)

\* The API batch over two contacts ended after an authentication failure
\* and another transport failure.
C1_Witness ==
    /\ op = "send_from_sheet"
    /\ Summarised
    /\ Len(contacts) = 2
    /\ outbox[1].reply = "auth"
    /\ outbox[2].reply = "error"
    /\ response.payload.failed = 2
    /\ response.payload.success = 0

YesAnswers == {"yes", "YES", "Yes"}

\* The confirmation prompt was answered with something other than a yes.
ConfirmationDeclined == op = "cli" /\ prompted /\ answer \notin YesAnswers

\* The batch cannot start: no credential pair, no sheet, or no contact.
CannotStart ==
    \/ ConfiguredCredentialsMissing
    \/ http.status_code # 200
    \/ QualifyingRows(http.rows) = <<>>

\* The run ended on the KeyError of a template.
RenderRaised == response.status = 500 /\ response.detail = "KeyError"

C8_OneAttemptPerContactInOrder ==
    IsBatch =>
      /\ Len(attempts) <= Len(contacts)
      /\ Len(attempts) = i
      /\ \A k \in 1..Len(attempts) : attempts[k].to = contacts[k].email
      /\ op = "send_from_sheet" => Len(results) = Len(attempts)
      /\ Summarised => Len(attempts) = Len(contacts)

\* Two different contacts: the first send failed, the second was delivered.
C8_Witness ==
    /\ op = "send_from_sheet"
    /\ Summarised
    /\ Len(outbox) = 2
    /\ outbox[1].reply = "error"
    /\ outbox[2].delivered
    /\ outbox[1].to = "a@b.com"
    /\ outbox[2].to = "hr@x.io"

\* C9: in real-send mode without the skip flag no email is sent unless the
\* answer is a yes in any case; any other answer ends the run before the
\* first dispatch; with the skip flag or in preview mode nothing is asked
\* and the dispatcher runs over all contacts.
C9_ConfirmationGuardsSending ==
    op = "cli" =>
      /\ (prompted /\ answer \notin YesAnswers) => (attempts = <<>> /\ pc = "done")
      /\ (outbox # <<>> /\ ~request.confirm) => (prompted /\ answer \in YesAnswers)
      /\ (prompted /\ answer \in YesAnswers /\ pc = "done")
           => Len(attempts) = Len(contacts)
      /\ prompted => (~request.preview /\ ~request.confirm)
      /\ (contacts # <<>> /\ ~request.preview /\ ~request.confirm) => prompted
      /\ ((request.preview \/ request.confirm) /\ contacts # <<>> /\ pc = "done")
           => Len(attempts) = Len(contacts)

\* The prompt was answered "YES" and both contacts were dispatched.
C9_Witness ==
    /\ op = "cli"
    /\ pc = "done"
    /\ prompted
    /\ answer = "YES"
    /\ Len(contacts) = 2
    /\ Len(outbox) = 2

Delivered == {k \in 1..Len(outbox) : outbox[k].delivered}

\* C10: at every point of a dispatch loop successes plus failures equal
\* the contacts processed so far; at the end succeeded + failed = total =
\* the number of extracted contacts, and the i-th outcome entry carries the
\* email of the i-th contact.
C10_CountsAddUp ==
    /\ op = "cli" =>
         /\ success_count + fail_count = i
         /\ success_count + fail_count = Len(attempts)
         /\ Summarised =>
              /\ response.payload.succeeded + response.payload.failed = Len(contacts)
              /\ ~request.preview => response.payload.succeeded = Cardinality(Delivered)
    /\ op = "send_from_sheet" =>
         /\ Len(results) = i
         /\ \A k \in 1..Len(results) : results[k].email = contacts[k].email
         /\ Cardinality({k \in 1..Len(results) : results[k].success}) = Cardinality(Delivered)
         /\ Summarised =>
              LET sum == response.payload IN
              /\ sum.total = Len(contacts)
              /\ sum.success + sum.failed = sum.total
              /\ sum.success = Cardinality(Delivered)
              /\ Len(sum.results) = Len(contacts)
              /\ \A k \in 1..Len(sum.results) : sum.results[k].email = contacts[k].email

\* The API batch over two contacts ended with one success and one failure.
C10_Witness ==
    /\ op = "send_from_sheet"
    /\ Summarised
    /\ Len(contacts) = 2
    /\ response.payload.success = 1
    /\ response.payload.failed = 1
    /\ ~response.payload.results[1].success
    /\ response.payload.results[2].success
====
